---------------------------- MODULE Spec2Model ----------------------------
(***************************************************************************)
(* Model of checkpointctl's container.go: showContainerCheckpoint and its  *)
(* helpers getPodmanInfo, getContainerdInfo, getCRIOInfo, dirSize,         *)
(* getCheckpointSize and shortenPath.                                      *)
(*                                                                         *)
(* Spec      - one run of showContainerCheckpoint, one action per block    *)
(*             of the function body; pc is the line about to execute.      *)
(* SpecPath  - shortenPath applied to bounded paths.                       *)
(* SpecDir   - dirSize applied to bounded directory trees.                 *)
(*                                                                         *)
(* Strings whose content the code computes on (the container ID, mount     *)
(* source paths, the CRI-O metadata blob) are sequences; strings the code  *)
(* only copies are TLA+ strings.  An error is the sequence of its message  *)
(* fragments, outermost wrap first; nil is the empty sequence.             *)
(***************************************************************************)
EXTENDS Integers, Sequences, FiniteSets, TLC

VARIABLES
    pc,               \* line of showContainerCheckpoint about to execute
    retLine,          \* line of the return statement taken (0: not returned)
    ret,              \* the error returned to the caller
    showMounts, printStats, fullPaths,   \* package-level display flags
    containerConfig,  \* *metadata.ContainerConfig
    specDump,         \* *spec.Spec
    containerdStatus, \* *metadata.ContainerdStatus (nil: present = FALSE)
    ci,               \* *containerInfo
    err,              \* the function-scope err variable
    header, row,      \* the base table under construction
    stdout,           \* everything written to os.Stdout, in order
    fi,               \* result of os.Lstat on the root-fs-diff artifact
    cpDir,            \* the directory handle: "nil", "open", "closed"
    statsCalls,       \* number of crit.GetDumpStats calls made
    path, shortened,  \* SpecPath: argument and result of shortenPath
    tree, sized       \* SpecDir: argument and result of dirSize

vars == <<pc, retLine, ret, showMounts, printStats, fullPaths, containerConfig,
          specDump, containerdStatus, ci, err, header, row, stdout, fi, cpDir,
          statsCalls, path, shortened, tree, sized>>

-----------------------------------------------------------------------------
(* Bounds *)

MaxComponents == 4   \* most names in an enumerated path
MaxKids == 2         \* most entries per directory of an enumerated tree

-----------------------------------------------------------------------------
(* Errors *)

nil == <<>>

\* fmt.Errorf(prefix + "%w"/"%s", rest)
Errorf(prefix, rest) == <<prefix>> \o rest

-----------------------------------------------------------------------------
(* shortenPath (container.go:233-239) and the path functions it calls *)

Separator == "/"

\* strings.Split(s, "/"): the pieces between separators, empty pieces kept
RECURSIVE Split(_)
Split(s) ==
    IF \A i \in 1..Len(s) : s[i] # Separator
    THEN <<s>>
    ELSE LET i == CHOOSE k \in 1..Len(s) :
                      s[k] = Separator /\ \A j \in 1..(k-1) : s[j] # Separator
         IN  <<SubSeq(s, 1, i-1)>> \o Split(SubSeq(s, i+1, Len(s)))

\* strings.Join(elems, "/")
RECURSIVE StringsJoin(_)
StringsJoin(elems) ==
    IF elems = <<>> THEN <<>>
    ELSE IF Len(elems) = 1 THEN elems[1]
    ELSE elems[1] \o <<Separator>> \o StringsJoin(Tail(elems))

\* The lexical pass of filepath.Clean over the components of a path: "" and
\* "." are dropped, ".." removes the component before it, or is kept when
\* there is none to remove and the path is not rooted.
RECURSIVE CleanComponents(_, _, _)
CleanComponents(comps, kept, rooted) ==
    IF comps = <<>> THEN kept
    ELSE LET c == Head(comps)
             rest == Tail(comps)
         IN  IF c = <<>> \/ c = <<".">>
             THEN CleanComponents(rest, kept, rooted)
             ELSE IF c = <<".", ".">>
             THEN IF kept # <<>> /\ kept[Len(kept)] # <<".", ".">>
                  THEN CleanComponents(rest, SubSeq(kept, 1, Len(kept)-1), rooted)
                  ELSE IF rooted
                  THEN CleanComponents(rest, kept, rooted)
                  ELSE CleanComponents(rest, Append(kept, c), rooted)
             ELSE CleanComponents(rest, Append(kept, c), rooted)

\* filepath.Clean
Clean(p) ==
    IF p = <<>> THEN <<".">>
    ELSE LET rooted == p[1] = Separator
             out == (IF rooted THEN <<Separator>> ELSE <<>>)
                    \o StringsJoin(CleanComponents(Split(p), <<>>, rooted))
         IN  IF out = <<>> THEN <<".">> ELSE out

\* filepath.Join: the elements from the first non-empty one on, joined and
\* cleaned; "" when every element is empty
RECURSIVE Join(_)
Join(elems) ==
    IF elems = <<>> THEN <<>>
    ELSE IF Head(elems) # <<>> THEN Clean(StringsJoin(elems))
    ELSE Join(Tail(elems))

shortenPath(p) ==
    LET parts == Split(p)
    IN  IF Len(parts) <= 2
        THEN p
        ELSE Join(<< <<".", ".">>, Join(SubSeq(parts, Len(parts)-1, Len(parts))) >>)

-----------------------------------------------------------------------------
(* dirSize / getCheckpointSize (container.go:212-231) *)

\* An entry of a directory tree as filepath.Walk meets it: kind "file" (any
\* non-directory), "dir", or "gone" (os.Lstat of it fails); size is what
\* FileInfo.Size() reports; a directory with readable = FALSE cannot be listed.
File(n) == [kind |-> "file", size |-> n, readable |-> TRUE, kids |-> <<>>]
Dir(ok, kids) == [kind |-> "dir", size |-> 4096, readable |-> ok, kids |-> kids]
Gone == [kind |-> "gone", size |-> 0, readable |-> FALSE, kids |-> <<>>]

LstatErr == <<"lstat: no such file or directory">>
ReadDirErr == <<"open: permission denied">>

\* variant: the closure returns nil where it should return the error
walkFn_Swallow(acc, info, e) ==
    [size |-> IF e = nil /\ info.kind # "dir" THEN acc + info.size ELSE acc,
     err |-> nil]

\* the closure handed to filepath.Walk (container.go:213-222); acc is the
\* named result size
walkFn(acc, info, e) ==
    IF e # nil
    THEN [size |-> acc, err |-> e]
    ELSE [size |-> IF info.kind # "dir" THEN acc + info.size ELSE acc,
          err |-> nil]

\* filepath.walk: the callback on the entry itself, then on each entry of a
\* directory in order, stopping at the first error the callback returns
RECURSIVE walk(_, _), walkEntries(_, _)
walk(info, acc) ==
    IF info.kind # "dir"
    THEN walkFn(acc, info, nil)
    ELSE LET r == walkFn(acc, info, IF info.readable THEN nil ELSE ReadDirErr)
         IN  IF ~info.readable \/ r.err # nil
             THEN r
             ELSE walkEntries(info.kids, r.size)

walkEntries(kids, acc) ==
    IF kids = <<>> THEN [size |-> acc, err |-> nil]
    ELSE LET k == Head(kids)
             r == IF k.kind = "gone" THEN walkFn(acc, k, LstatErr) ELSE walk(k, acc)
         IN  IF r.err # nil THEN r ELSE walkEntries(Tail(kids), r.size)

\* filepath.Walk(root, fn) with the named results of dirSize
dirSize(root) ==
    IF root.kind = "gone" THEN walkFn(0, root, LstatErr) ELSE walk(root, 0)

\* path is the tree found at <path>/checkpoint
getCheckpointSize(checkpointSubtree) == dirSize(checkpointSubtree)

-----------------------------------------------------------------------------
(* Collaborators of showContainerCheckpoint and the values they hand back *)

\* time.Time, to the precision the model needs
Time(s, ns) == [sec |-> s, nsec |-> ns]

NanosPerSecond == 1000000000

\* time.Unix(0, nsec)
UnixNano(n) == Time(n \div NanosPerSecond, n % NanosPerSecond)

\* t.Format(time.RFC3339) in UTC: whole seconds, the fraction is dropped
RFC3339 == [s \in 0..2 |->
              CASE s = 0 -> "1970-01-01T00:00:00Z"
                [] s = 1 -> "1970-01-01T00:00:01Z"
                [] s = 2 -> "1970-01-01T00:00:02Z"]

Format(t) == RFC3339[t.sec]

\* a container ID of n characters
IDOfLen(n) == [i \in 1..n |-> i % 10]

IDLens == {0, 8, 12, 13, 16}

\* what metadata.ReadContainerCheckpointConfigDump can return
ContainerConfigs ==
    [Name : {"", "web"},
     ID : {IDOfLen(n) : n \in IDLens},
     RootfsImageName : {"docker.io/library/nginx"},
     OCIRuntime : {"runc"},
     CreatedTime : {Time(0, 0), Time(1, 500000000)}]

NoConfig == [Name |-> "", ID |-> <<>>, RootfsImageName |-> "", OCIRuntime |-> "",
             CreatedTime |-> Time(0, 0)]

ConfigReadErr == <<"config.dump: no such file or directory">>
SpecReadErr == <<"spec.dump: no such file or directory">>

\* The text of the io.kubernetes.cri-o.Metadata annotation, as JSON tokens.
\* An absent annotation is the empty text.
StringLiterals == {"\"web\"", "\"\""}
Unquote(tok) == IF tok = "\"web\"" THEN "web" ELSE ""

MetadataTexts ==
    { <<>>,                                  \* annotation absent
      <<"{", "}">>,
      <<"{", "\"name\"", ":", "\"web\"", "}">>,
      <<"{", "\"name\"", ":", "\"\"", "}">>,
      <<"{", "\"name\"", ":", "7", "}">>,      \* a number where a string belongs
      <<"{", "\"name\"", ":">> }               \* truncated

\* json.Unmarshal(text, &containerMetadata{}): the decoded struct and the error
Unmarshal(text) ==
    IF text = <<"{", "}">>
    THEN [cm |-> [Name |-> "", Attempt |-> 0], err |-> nil]
    ELSE IF Len(text) = 5 /\ text[1] = "{" /\ text[2] = "\"name\"" /\ text[3] = ":"
            /\ text[5] = "}"
    THEN IF text[4] \in StringLiterals
         THEN [cm |-> [Name |-> Unquote(text[4]), Attempt |-> 0], err |-> nil]
         ELSE [cm |-> [Name |-> "", Attempt |-> 0],
               err |-> <<"json: cannot unmarshal number into Go struct field">>]
    ELSE [cm |-> [Name |-> "", Attempt |-> 0],
          err |-> <<"unexpected end of JSON input">>]

\* specDump.Mounts: Source is a path the mount overview may shorten
Mount(dst, src) == [Destination |-> dst, Type |-> "bind", Source |-> src]

MountLists ==
    { <<>>,
      << Mount("/proc", <<"p", "r", "o", "c">>),
         Mount("/etc/hosts", <<"/", "a", "/", "b", "/", "c", "/", "d">>) >> }

\* specDump.Annotations, by the keys the code reads; a key that is absent
\* reads as ""
Managers == {"libpod", "cri-o", "", "docker"}

SpecDumps ==
    [manager : Managers,
     crioMetadata : MetadataTexts,
     crioIP : {"", "10.88.0.2"},
     crioCreated : {"2023-03-01T10:00:00.123456789Z"},
     criContainerName : {"", "counter"},
     Mounts : MountLists]

NoSpec == [manager |-> "", crioMetadata |-> <<>>, crioIP |-> "", crioCreated |-> "",
           criContainerName |-> "", Mounts |-> <<>>]

\* metadata.ReadContainerCheckpointStatusFile: the record, or none
NoStatus == [present |-> FALSE, CreatedAt |-> 0]

ContainerdStatuses ==
    {NoStatus}
    \cup {[present |-> TRUE, CreatedAt |-> n] : n \in {999999999, 2000000001}}

\* metadata.ByteToString
ByteToString(n) == <<n, "B">>

\* what os.Lstat of rootfs-diff.tar can return
RootFsDiffStats ==
    {[err |-> LstatErr, size |-> 0], [err |-> nil, size |-> 0], [err |-> nil, size |-> 2048]}

\* the trees that may be found at <checkpointDirectory>/checkpoint
CheckpointSubtrees ==
    { Gone,
      Dir(TRUE, <<File(4096)>>),
      Dir(TRUE, <<File(10), Gone>>) }

OpenErr == <<"open: no such file or directory">>
StatsErr == <<"stats-dump: no such file or directory">>

DumpStatistics == [FreezingTime |-> 100, FrozenTime |-> 200, MemdumpTime |-> 300,
                   MemwriteTime |-> 400, PagesScanned |-> 50, PagesWritten |-> 40]

-----------------------------------------------------------------------------
(* containerInfo and the three extractors (container.go:26-62) *)

NilInfo == [Name |-> "", IP |-> "", MAC |-> "", Created |-> "", Engine |-> ""]

getPodmanInfo(config, sd) ==
    [Name |-> config.Name, IP |-> "", MAC |-> "",
     Created |-> Format(config.CreatedTime), Engine |-> "Podman"]

\* variant: the name looked up under a key the spec dump does not carry
getContainerdInfo_WrongKey(status, sd) ==
    [Name |-> "", IP |-> "", MAC |-> "",
     Created |-> Format(UnixNano(status.CreatedAt)), Engine |-> "containerd"]

getContainerdInfo(status, sd) ==
    [Name |-> sd.criContainerName, IP |-> "", MAC |-> "",
     Created |-> Format(UnixNano(status.CreatedAt)), Engine |-> "containerd"]

\* variant: the decode error is dropped and the zero-valued metadata used
getCRIOInfo_IgnoreErr(config, sd) ==
    LET u == Unmarshal(sd.crioMetadata)
    IN  [info |-> [Name |-> u.cm.Name, IP |-> sd.crioIP, MAC |-> "",
                   Created |-> sd.crioCreated, Engine |-> "CRI-O"],
         err |-> nil]

\* returns the pair (info, err); info is nil when err is not
getCRIOInfo(config, sd) ==
    LET u == Unmarshal(sd.crioMetadata)
    IN  IF u.err # nil
        THEN [info |-> NilInfo,
              err |-> Errorf("failed to read io.kubernetes.cri-o.Metadata: ", u.err)]
        ELSE [info |-> [Name |-> u.cm.Name, IP |-> sd.crioIP, MAC |-> "",
                        Created |-> sd.crioCreated, Engine |-> "CRI-O"],
              err |-> nil]

-----------------------------------------------------------------------------
(* showContainerCheckpoint (container.go:64-210) *)

Text(t) == [kind |-> "text", text |-> t, header |-> <<>>, rows |-> <<>>]

\* SetHeader(h), Append(row)..., Render() on a tablewriter over os.Stdout
Table(h, rs) == [kind |-> "table", text |-> "", header |-> h, rows |-> rs]

Banner == Text("Displaying container checkpoint data from <checkpointDirectory>")

BaseHeader == <<"Container", "Image", "ID", "Runtime", "Created", "Engine">>

IDShortLen == 12

\* container.go:109-113
ShortID(id) == IF Len(id) > IDShortLen THEN SubSeq(id, 1, IDShortLen) ELSE id

\* variant: the message without the discriminator value
UnknownManagerError_NoValue(m) == Errorf("unknown container manager found", <<>>)

\* container.go:86
UnknownManagerError(m) == Errorf("unknown container manager found: ", <<m>>)

\* variant: the IP label appended whether or not there is an IP
AppendIP_HeaderAlways(t, info) ==
    [header |-> Append(t.header, "IP"),
     row |-> IF info.IP # "" THEN Append(t.row, info.IP) ELSE t.row]

\* container.go:119-122 and 123-126, on the pair [header, row]
AppendIP(t, info) ==
    IF info.IP # ""
    THEN [header |-> Append(t.header, "IP"), row |-> Append(t.row, info.IP)]
    ELSE t

AppendMAC(t, info) ==
    IF info.MAC # ""
    THEN [header |-> Append(t.header, "MAC"), row |-> Append(t.row, info.MAC)]
    ELSE t

\* variant: the size of the artifact is not looked at
RootFsDiffShown_NoSizeCheck(st) == st.err = nil

\* container.go:138-139
RootFsDiffShown(st) == st.err = nil /\ st.size # 0

\* variant: statistics retrieved whatever the flag says
StatsRequested_Always == TRUE

\* container.go:175
StatsRequested == printStats

\* container.go:163-168
MountSource(m) == IF fullPaths THEN m.Source ELSE shortenPath(m.Source)

MountRows(mounts) ==
    [i \in 1..Len(mounts) |->
        <<mounts[i].Destination, mounts[i].Type, MountSource(mounts[i])>>]

StatsRow(d) ==
    << <<d.FreezingTime, " us">>, <<d.FrozenTime, " us">>, <<d.MemdumpTime, " us">>,
       <<d.MemwriteTime, " us">>, <<d.PagesScanned>>, <<d.PagesWritten>> >>

\* a return statement: the deferred cpDir.Close() runs if the handle is open
Return(line, e) ==
    /\ pc' = "done"
    /\ retLine' = line
    /\ ret' = e
    /\ cpDir' = IF cpDir = "open" THEN "closed" ELSE cpDir

Goto(l) == pc' = l /\ UNCHANGED <<retLine, ret, cpDir>>

Flags == <<showMounts, printStats, fullPaths>>
Inputs == <<containerConfig, specDump, containerdStatus>>
Unused == <<path, shortened, tree, sized>>

\* container.go:69-72
ReadConfig ==
    /\ pc = "L69"
    /\ \/ /\ err' = ConfigReadErr
          /\ Return(71, ConfigReadErr)
          /\ UNCHANGED containerConfig
       \/ \E c \in ContainerConfigs :
             /\ containerConfig' = c
             /\ err' = nil
             /\ Goto("L73")
    /\ UNCHANGED <<Flags, specDump, containerdStatus, ci, header, row, stdout, fi,
                   statsCalls, Unused>>

\* container.go:73-76
ReadSpec ==
    /\ pc = "L73"
    /\ \/ /\ err' = SpecReadErr
          /\ Return(75, SpecReadErr)
          /\ UNCHANGED specDump
       \/ \E sd \in SpecDumps :
             /\ specDump' = sd
             /\ err' = nil
             /\ Goto("L78")
    /\ UNCHANGED <<Flags, containerConfig, containerdStatus, ci, header, row, stdout, fi,
                   statsCalls, Unused>>

\* container.go:78-93: the switch on the discriminator and the error check
\* that follows it
Classify ==
    /\ pc = "L78"
    /\ LET m == specDump.manager
       IN  \/ /\ m = "libpod"
              /\ ci' = getPodmanInfo(containerConfig, specDump)
              /\ err' = err
              /\ UNCHANGED containerdStatus
              /\ Goto("L95")
           \/ /\ m = "cri-o"
              /\ LET r == getCRIOInfo(containerConfig, specDump)
                 IN  /\ ci' = r.info
                     /\ err' = r.err
                     /\ UNCHANGED containerdStatus
                     /\ IF r.err # nil
                        THEN Return(92, Errorf("getting container checkpoint information failed: ",
                                               r.err))
                        ELSE Goto("L95")
           \/ /\ m \notin {"libpod", "cri-o"}
              /\ \E st \in ContainerdStatuses :
                    /\ containerdStatus' = st
                    /\ IF ~st.present
                       THEN /\ Return(86, UnknownManagerError(m))
                            /\ UNCHANGED <<ci, err>>
                       ELSE /\ ci' = getContainerdInfo(st, specDump)
                            /\ err' = err
                            /\ Goto("L95")
    /\ UNCHANGED <<Flags, containerConfig, specDump, header, row, stdout, fi, statsCalls,
                   Unused>>

\* container.go:95
PrintBanner ==
    /\ pc = "L95"
    /\ stdout' = Append(stdout, Banner)
    /\ Goto("L98")
    /\ UNCHANGED <<Flags, Inputs, ci, err, header, row, fi, statsCalls,
                   Unused>>

\* container.go:97-126
BuildRow ==
    /\ pc = "L98"
    /\ LET base == [header |-> BaseHeader,
                    row |-> <<ci.Name, containerConfig.RootfsImageName,
                              ShortID(containerConfig.ID), containerConfig.OCIRuntime,
                              ci.Created, ci.Engine>>]
           t == AppendMAC(AppendIP(base, ci), ci)
       IN  /\ header' = t.header
           /\ row' = t.row
    /\ Goto("L128")
    /\ UNCHANGED <<Flags, Inputs, ci, err, stdout, fi, statsCalls, Unused>>

\* container.go:128-134
CheckpointSize ==
    /\ pc = "L128"
    /\ \E t \in CheckpointSubtrees :
          LET r == getCheckpointSize(t)
          IN  /\ err' = r.err
              /\ IF r.err # nil
                 THEN /\ Return(130, r.err)
                      /\ UNCHANGED <<header, row>>
                 ELSE /\ header' = Append(header, "CHKPT Size")
                      /\ row' = Append(row, ByteToString(r.size))
                      /\ Goto("L137")
    /\ UNCHANGED <<Flags, Inputs, ci, stdout, fi, statsCalls, Unused>>

\* container.go:136-143
RootFsDiff ==
    /\ pc = "L137"
    /\ \E st \in RootFsDiffStats :
          /\ fi' = st
          /\ err' = st.err
          /\ IF RootFsDiffShown(st)
             THEN /\ header' = Append(header, "Root Fs Diff Size")
                  /\ row' = Append(row, ByteToString(st.size))
             ELSE UNCHANGED <<header, row>>
    /\ Goto("L145")
    /\ UNCHANGED <<Flags, Inputs, ci, stdout, statsCalls, Unused>>

\* container.go:145-149
RenderTable ==
    /\ pc = "L145"
    /\ stdout' = Append(stdout, Table(header, <<row>>))
    /\ Goto("L151")
    /\ UNCHANGED <<Flags, Inputs, ci, err, header, row, fi, statsCalls,
                   Unused>>

\* container.go:151-173
MountsOverview ==
    /\ pc = "L151"
    /\ IF showMounts
       THEN stdout' = stdout \o
                <<Text("Overview of Mounts"),
                  Table(<<"Destination", "Type", "Source">>, MountRows(specDump.Mounts))>>
       ELSE UNCHANGED stdout
    /\ Goto("L175")
    /\ UNCHANGED <<Flags, Inputs, ci, err, header, row, fi, statsCalls,
                   Unused>>

\* container.go:175-180
OpenCheckpointDirectory ==
    /\ pc = "L175"
    /\ IF StatsRequested
       THEN \/ Return(178, OpenErr)
            \/ /\ pc' = "L183"
               /\ cpDir' = "open"
               /\ UNCHANGED <<retLine, ret>>
       ELSE Goto("L209")
    /\ UNCHANGED <<Flags, Inputs, ci, err, header, row, stdout, fi,
                   statsCalls, Unused>>

\* container.go:182-206
DumpStats ==
    /\ pc = "L183"
    /\ statsCalls' = statsCalls + 1
    /\ \/ /\ Return(185, Errorf("unable to display checkpointing statistics: ", StatsErr))
          /\ UNCHANGED stdout
       \/ /\ stdout' = stdout \o
                <<Text("CRIU dump statistics"),
                  Table(<<"Freezing Time", "Frozen Time", "Memdump Time", "Memwrite Time",
                          "Pages Scanned", "Pages Written">>,
                        <<StatsRow(DumpStatistics)>>)>>
          /\ Goto("L209")
    /\ UNCHANGED <<Flags, Inputs, ci, err, header, row, fi, Unused>>

\* container.go:209
ReturnNil ==
    /\ pc = "L209"
    /\ Return(209, nil)
    /\ UNCHANGED <<Flags, Inputs, ci, err, header, row, stdout, fi,
                   statsCalls, Unused>>

NoFileInfo == [err |-> nil, size |-> 0]

Init ==
    /\ pc = "L69"
    /\ retLine = 0
    /\ ret = nil
    /\ showMounts \in BOOLEAN
    /\ printStats \in BOOLEAN
    /\ fullPaths \in BOOLEAN
    /\ containerConfig = NoConfig
    /\ specDump = NoSpec
    /\ containerdStatus = NoStatus
    /\ ci = NilInfo
    /\ err = nil
    /\ header = <<>>
    /\ row = <<>>
    /\ stdout = <<>>
    /\ fi = NoFileInfo
    /\ cpDir = "nil"
    /\ statsCalls = 0
    /\ path = <<>>
    /\ shortened = <<>>
    /\ tree = Gone
    /\ sized = [size |-> 0, err |-> nil]

Next ==
    \/ ReadConfig
    \/ ReadSpec
    \/ Classify
    \/ PrintBanner
    \/ BuildRow
    \/ CheckpointSize
    \/ RootFsDiff
    \/ RenderTable
    \/ MountsOverview
    \/ OpenCheckpointDirectory
    \/ DumpStats
    \/ ReturnNil

Spec == Init /\ [][Next]_vars

-----------------------------------------------------------------------------
(* shortenPath and dirSize on their own *)

\* showContainerCheckpoint not running
Idle ==
    /\ retLine = 0
    /\ ret = nil
    /\ showMounts = FALSE /\ printStats = FALSE /\ fullPaths = FALSE
    /\ containerConfig = NoConfig
    /\ specDump = NoSpec
    /\ containerdStatus = NoStatus
    /\ ci = NilInfo
    /\ err = nil
    /\ header = <<>>
    /\ row = <<>>
    /\ stdout = <<>>
    /\ fi = NoFileInfo
    /\ cpDir = "nil"
    /\ statsCalls = 0

SeqsUpTo(S, n) == UNION {[1..k -> S] : k \in 0..n}

Names == {<<"a">>, <<"b">>, <<"c">>, <<"d">>}

\* the paths of at most MaxComponents names, absolute and relative
Paths ==
    {(IF rooted THEN <<Separator>> ELSE <<>>) \o StringsJoin(names) :
        rooted \in BOOLEAN, names \in SeqsUpTo(Names, MaxComponents)}

InitPath ==
    /\ Idle
    /\ pc = "shortenPath"
    /\ path \in Paths
    /\ shortened = <<>>
    /\ tree = Gone
    /\ sized = [size |-> 0, err |-> nil]

ShortenPathCall ==
    /\ pc = "shortenPath"
    /\ shortened' = shortenPath(path)
    /\ pc' = "shortened"
    /\ UNCHANGED <<retLine, ret, Flags, Inputs, ci, err, header, row,
                   stdout, fi, cpDir, statsCalls, path, tree, sized>>

NextPath == ShortenPathCall

SpecPath == InitPath /\ [][NextPath]_vars

FileSizes == {10, 20, 30}

Leaves == {File(n) : n \in FileSizes} \cup {Gone}

SubDirs == {Dir(FALSE, <<>>)} \cup {Dir(TRUE, kids) : kids \in SeqsUpTo(Leaves, MaxKids)}

Trees ==
    Leaves \cup {Dir(FALSE, <<>>)}
    \cup {Dir(TRUE, kids) : kids \in SeqsUpTo(Leaves \cup SubDirs, MaxKids)}

InitDir ==
    /\ Idle
    /\ pc = "dirSize"
    /\ tree \in Trees
    /\ sized = [size |-> 0, err |-> nil]
    /\ path = <<>>
    /\ shortened = <<>>

DirSizeCall ==
    /\ pc = "dirSize"
    /\ sized' = dirSize(tree)
    /\ pc' = "sized"
    /\ UNCHANGED <<retLine, ret, Flags, Inputs, ci, err, header, row,
                   stdout, fi, cpDir, statsCalls, path, shortened, tree>>

NextDir == DirSizeCall

SpecDir == InitDir /\ [][NextDir]_vars

-----------------------------------------------------------------------------
(* Properties *)

Classifying == pc \in {"L69", "L73", "L78"}

\* classification ended and produced an identity
Classified == ~Classifying /\ retLine \notin {71, 75, 86, 92}

IsBaseTable(e) == e.kind = "table" /\ e.header # <<>> /\ e.header[1] = "Container"

BaseRendered == \E i \in DOMAIN stdout : IsBaseTable(stdout[i])

Fragments(e) == {e[i] : i \in DOMAIN e}

\* C1: whenever classification succeeds the one identity held in ci has a
\* non-empty engine, and per discriminator: "libpod" gives Podman with the
\* config's name and its creation time formatted; "cri-o" gives CRI-O with
\* the name decoded from the metadata annotation, the IP.0 annotation and the
\* Created annotation verbatim; anything else, with a containerd status
\* record, gives containerd with the CRI container-name annotation and the
\* status record's nanosecond timestamp converted to calendar time.
C1_IdentityPerEngine ==
    Classified =>
        /\ ci.Engine \in {"Podman", "CRI-O", "containerd"}
        /\ specDump.manager = "libpod" =>
              /\ ci.Engine = "Podman"
              /\ ci.Name = containerConfig.Name
              /\ ci.Created = RFC3339[containerConfig.CreatedTime.sec]
        /\ specDump.manager = "cri-o" =>
              /\ ci.Engine = "CRI-O"
              /\ specDump.crioMetadata = <<"{", "\"name\"", ":", "\"web\"", "}">>
                    => ci.Name = "web"
              /\ specDump.crioMetadata \in {<<"{", "}">>, <<"{", "\"name\"", ":", "\"\"", "}">>}
                    => ci.Name = ""
              /\ ci.IP = specDump.crioIP
              /\ ci.Created = specDump.crioCreated
        /\ specDump.manager \notin {"libpod", "cri-o"} =>
              /\ containerdStatus.present
              /\ ci.Engine = "containerd"
              /\ ci.Name = specDump.criContainerName
              /\ ci.Created = RFC3339[containerdStatus.CreatedAt \div NanosPerSecond]

C1_Witness ==
    /\ pc = "done" /\ retLine = 209
    /\ specDump.manager = "docker"
    /\ ci = [Name |-> "counter", IP |-> "", MAC |-> "",
             Created |-> "1970-01-01T00:00:02Z", Engine |-> "containerd"]

\* C2: a discriminator that is neither "libpod" nor "cri-o", with no
\* containerd status record, ends the run at the classification error, whose
\* message carries the discriminator value; no identity exists and nothing
\* was written.
C2_UnknownManagerFails ==
    (~Classifying /\ specDump.manager \notin {"libpod", "cri-o"} /\ ~containerdStatus.present
        /\ retLine \notin {71, 75}) =>
        /\ pc = "done" /\ retLine = 86
        /\ ret # nil /\ ret[1] = "unknown container manager found: "
        /\ specDump.manager \in Fragments(Tail(ret))
        /\ ci = NilInfo
        /\ stdout = <<>>

C2_Witness ==
    /\ pc = "done" /\ retLine = 86
    /\ specDump.manager = "docker"
    /\ ret = <<"unknown container manager found: ", "docker">>

MalformedMetadata ==
    { <<>>, <<"{", "\"name\"", ":", "7", "}">>, <<"{", "\"name\"", ":">> }

\* C3: a CRI-O checkpoint whose metadata annotation does not decode ends the
\* run with the metadata-parse error; no identity exists, no other engine's
\* extractor ran, and nothing was written.
C3_MalformedMetadataFails ==
    (~Classifying /\ specDump.manager = "cri-o"
        /\ specDump.crioMetadata \in MalformedMetadata) =>
        /\ pc = "done" /\ retLine = 92
        /\ "failed to read io.kubernetes.cri-o.Metadata: " \in Fragments(ret)
        /\ ci = NilInfo
        /\ stdout = <<>>

C3_Witness ==
    /\ pc = "done" /\ retLine = 92
    /\ specDump.manager = "cri-o"
    /\ specDump.crioMetadata = <<"{", "\"name\"", ":", "7", "}">>

\* C4: on a fatal failure (config load, spec load, classification, metadata
\* parse, size computation) nothing has been written to the output and no
\* table has been handed to the sink.
C4_NothingRenderedOnFatal ==
    (pc = "done" /\ retLine \in {71, 75, 86, 92, 130}) => stdout = <<>>

StageMessages ==
    { "unknown container manager found: ",
      "getting container checkpoint information failed: ",
      "unable to display checkpointing statistics: " }

\* C5: every error returned carries, outermost, a message of this function
\* naming the stage that failed.
C5_EveryErrorWrapped ==
    (pc = "done" /\ ret # nil) => ret[1] \in StageMessages

\* C6: the directory handle is opened and the statistics reader called only
\* with printStats set and only once the base table has been rendered; a
\* return from the statistics section leaves the base table rendered.
C6_StatsAfterBaseTable ==
    /\ (cpDir # "nil" \/ statsCalls > 0 \/ pc = "L183") => (printStats /\ BaseRendered)
    /\ retLine \in {178, 185} => (printStats /\ BaseRendered)
    /\ \A i \in DOMAIN stdout :
          stdout[i].text = "CRIU dump statistics" =>
              \E j \in 1..(i-1) : IsBaseTable(stdout[j])

C6_Witness ==
    /\ pc = "done" /\ retLine = 185
    /\ cpDir = "closed" /\ statsCalls = 1
    /\ BaseRendered

ExpectedHeader ==
    BaseHeader
    \o (IF ci.IP # "" THEN <<"IP">> ELSE <<>>)
    \o (IF ci.MAC # "" THEN <<"MAC">> ELSE <<>>)
    \o <<"CHKPT Size">>
    \o (IF fi.err = nil /\ fi.size > 0 THEN <<"Root Fs Diff Size">> ELSE <<>>)

\* C7: the header handed to the sink is the base header, then "IP" iff the
\* identity has an IP, then "MAC" iff it has a MAC, then "CHKPT Size", then
\* "Root Fs Diff Size" iff the artifact exists with non-zero size; an IP or
\* MAC column never holds an empty cell.
C7_HeaderColumns ==
    \A i \in DOMAIN stdout :
        IsBaseTable(stdout[i]) =>
            /\ stdout[i].header = ExpectedHeader
            /\ \A j \in DOMAIN stdout[i].header :
                  (stdout[i].header[j] \in {"IP", "MAC"} /\ j \in DOMAIN stdout[i].rows[1])
                      => stdout[i].rows[1][j] # ""

C7_Witness ==
    \E i \in DOMAIN stdout :
        /\ stdout[i].kind = "table"
        /\ stdout[i].header = BaseHeader \o <<"IP", "CHKPT Size", "Root Fs Diff Size">>
        /\ fi.size = 2048

\* C8: the row handed to the sink with the base header has as many cells as
\* the header has labels.
C8_RowMatchesHeader ==
    \A i \in DOMAIN stdout :
        IsBaseTable(stdout[i]) =>
            /\ Len(stdout[i].rows) = 1
            /\ Len(stdout[i].rows[1]) = Len(stdout[i].header)

C8_Witness ==
    \E i \in DOMAIN stdout :
        /\ IsBaseTable(stdout[i])
        /\ Len(stdout[i].header) = 9
        /\ Len(stdout[i].rows[1]) = 9
        /\ Len(containerConfig.ID) = 16
        /\ Len(stdout[i].rows[1][3]) = 12

\* the named components of a path: the non-empty pieces between separators
Components(p) == SelectSeq(Split(p), LAMBDA c : c # <<>>)

\* C9: a path of two or fewer components (such as /a/b) comes back
\* unmodified; a longer one comes back as ".." joined with its last two
\* components (/a/b/c/d gives ../c/d).
C9_ShortenPath ==
    pc = "shortened" =>
        LET c == Components(path)
            n == Len(c)
        IN  IF n <= 2
            THEN shortened = path
            ELSE shortened = <<".", ".", Separator>> \o c[n-1] \o <<Separator>> \o c[n]

RECURSIVE Traversable(_), FileBytes(_)
\* every entry of the tree can be stat'ed and every directory listed
Traversable(t) ==
    /\ t.kind # "gone"
    /\ t.kind = "dir" => t.readable
    /\ \A i \in DOMAIN t.kids : Traversable(t.kids[i])

\* the bytes held by the non-directory entries of the tree
RECURSIVE SumBytes(_)
SumBytes(kids) == IF kids = <<>> THEN 0 ELSE FileBytes(Head(kids)) + SumBytes(Tail(kids))

FileBytes(t) == IF t.kind = "file" THEN t.size ELSE SumBytes(t.kids)

\* C10: when the traversal succeeds dirSize returns, with no error, the sum
\* of the sizes of the non-directory entries of the tree; when it fails at
\* any entry, the root included, dirSize returns an error, never a
\* successful result carrying the sum reached so far.
C10_DirSize ==
    pc = "sized" =>
        IF Traversable(tree)
        THEN sized.err = nil /\ sized.size = FileBytes(tree)
        ELSE sized.err # nil

C10_Witness ==
    /\ pc = "sized"
    /\ tree = Dir(TRUE, <<File(10), Dir(TRUE, <<File(20), Gone>>)>>)
    /\ sized.err = LstatErr

====
